---- MODULE Spec2Model ----
(***************************************************************************)
(* Model of the asynchronous workflow engine (app/core/engine.py) with its *)
(* storage back ends (app/core/storage.py) and the events it hands to the  *)
(* connection manager (app/core/websocket_manager.py), and of the          *)
(* websocket endpoint (app/api/routes.py) that subscribes clients to runs. *)
(*                                                                         *)
(* One coroutine _execute_workflow runs per started run and one coroutine  *)
(* websocket_endpoint per client connection.  Their bodies are cut at      *)
(* their await points: each action below is the code executed between two  *)
(* awaits, together with the awaited call that ends the segment.  A        *)
(* broadcast is cut at each send_text it awaits.                           *)
(***************************************************************************)
EXTENDS Integers, Sequences, FiniteSets, Bags, TLC

VARIABLES
    scope,         \* which family of requests is explored (see Scopes)
    reply,         \* outcome of the latest create_graph / start_run call
    active_connections, \* ConnectionManager.active_connections: run_id -> list
    endpoint,      \* per websocket: position and locals of websocket_endpoint,
                   \* and whether the connection is still open (alive)
    bcast,         \* per coroutine: the broadcast_log call it is suspended in
    inbox,         \* per websocket: the messages send_text delivered, as a
                   \* bag, and the statuses delivered after a terminal one
    storageKind,   \* which BaseStorage get_storage() built: "memory" | "sqlite"
    graphs,        \* storage.graphs : graph_id -> GraphDefinition
    runs,          \* storage.runs   : run_id -> persisted WorkflowState
    logs,          \* storage.logs   : run_id -> sequence of ExecutionStep
    run_state,     \* the WorkflowState object each _execute_workflow task owns
    task,          \* per run: position and locals of _execute_workflow, with
                   \* the arguments it was started on and the nodes whose
                   \* tool it has run (visited)
    published      \* per run: events handed to ws_manager.broadcast_*, in order

vars == <<scope, reply, active_connections, endpoint, bcast, inbox,
          storageKind, graphs, runs, logs, run_state, task, published>>

----------------------------------------------------------------------------
(* Bounds of the explored instances *)

MaxEdges == 3      \* edges leaving node A in a submitted graph
MaxLoopsBound == 2 \* largest max_loops of a submitted graph

(* Identifiers drawn by uuid4 and the vocabulary of submitted graphs *)
GraphIds == {"g1"}
RunIds == {"r1", "r2"}
RunOrder == <<"r1", "r2">>     \* the order in which the run ids are drawn
Sockets == {"w1", "w2"}
SocketOrder == <<"w1", "w2">>  \* the order in which the connections arrive
NodeIds == {"A", "B"}

Null == "None"            \* Python None where the other values are strings
NoMessage == <<>>         \* WorkflowState.message = None

\* `while run_state.current_node:` and `if next_node_id:` test truthiness:
\* None and the empty string are both false
Falsy(x) == x \in {Null, ""}
EmptyDict == [k \in {} |-> 0]

Dict1(k, v) == [x \in {k} |-> v]

----------------------------------------------------------------------------
(* Tool registry and tools *)

\* ToolRegistry._registry: the names registered when the graph is submitted
Registry == {"inc", "noop", "boom"}

\* dict.get(key, default)
DictGet(s, k, d) == IF k \in DOMAIN s THEN s[k] ELSE d

\* What calling a registered tool on the shared state does:
\*   "inc"  returns {"counter": state.get("counter", 0) + 1}
\*   "noop" returns None (not a mapping)
\*   "boom" raises
ToolCall(tool, s) ==
    CASE tool = "inc"  -> [raised |-> FALSE, isdict |-> TRUE,
                           value |-> Dict1("counter", DictGet(s, "counter", 0) + 1),
                           text |-> ""]
      [] tool = "noop" -> [raised |-> FALSE, isdict |-> FALSE,
                           value |-> EmptyDict, text |-> ""]
      [] OTHER         -> [raised |-> TRUE, isdict |-> FALSE,
                           value |-> EmptyDict, text |-> "boom"]

\* the result taken as the new state in place of merged into it
DictUpdate_replace(s, res) == res

\* run_state.state.update(result)
DictUpdate(s, res) ==
    [k \in (DOMAIN s) \cup (DOMAIN res) |-> IF k \in DOMAIN res THEN res[k] ELSE s[k]]

----------------------------------------------------------------------------
(* Conditions and their evaluation by simple_eval *)

NoCond == [kind |-> "none", n |-> 0]       \* edge.condition is None
CondLt(n) == [kind |-> "lt", n |-> n]      \* "state.counter < n"
CondPop(n) == [kind |-> "pop", n |-> n]    \* "state.pop('counter', 0) < n"
CondUndef == [kind |-> "undef", n |-> 0]   \* "undefined_name > 0"

\* dict.pop(key, default): the dict afterwards
DictPop(s, k) == [x \in (DOMAIN s) \ {k} |-> s[x]]

\* the evaluation with <= where the condition says <
simple_eval_le(cond, s) ==
    CASE cond.kind = "lt" ->
            IF "counter" \in DOMAIN s
            THEN [ok |-> TRUE, value |-> s["counter"] <= cond.n, state |-> s]
            ELSE [ok |-> FALSE, value |-> FALSE, state |-> s]
      [] cond.kind = "pop" ->
            [ok |-> TRUE, value |-> DictGet(s, "counter", 0) <= cond.n,
             state |-> DictPop(s, "counter")]
      [] OTHER -> [ok |-> FALSE, value |-> FALSE, state |-> s]

\* simple_eval(edge.condition, names={"state": run_state.state}, ...):
\* ok = no exception; value = truthiness of the result; state = the dict
\* bound to `state` afterwards (it is the live dict, not a copy).
simple_eval(cond, s) ==
    CASE cond.kind = "lt" ->
            IF "counter" \in DOMAIN s
            THEN [ok |-> TRUE, value |-> s["counter"] < cond.n, state |-> s]
            ELSE [ok |-> FALSE, value |-> FALSE, state |-> s]
      [] cond.kind = "pop" ->
            [ok |-> TRUE, value |-> DictGet(s, "counter", 0) < cond.n,
             state |-> DictPop(s, "counter")]
      [] OTHER -> [ok |-> FALSE, value |-> FALSE, state |-> s]

----------------------------------------------------------------------------
(* Graph definitions *)

Node(id, tool) == [id |-> id, tool |-> tool]
Edge(f, t, c) == [from_node |-> f, to_node |-> t, condition |-> c]

RECURSIVE SeqsUpTo(_, _)
SeqsUpTo(S, n) ==
    IF n = 0 THEN {<<>>}
    ELSE LET shorter == SeqsUpTo(S, n - 1)
         IN  shorter \cup {Append(q, x) : q \in {p \in shorter : Len(p) = n - 1}, x \in S}

Conds == {NoCond, CondLt(2), CondPop(2), CondUndef}

\* edges leaving A: any target, any condition
EdgesFromA == {Edge("A", t, c) : t \in NodeIds, c \in Conds}
\* edges leaving B: back to A, unconditional or guarded
EdgesFromB == {<<>>, <<Edge("B", "A", NoCond)>>, <<Edge("B", "A", CondLt(2))>>}

Graph(ns, es, m) == [nodes |-> ns, edges |-> es, start_node |-> "A", max_loops |-> m]

\* A increments the counter and B does nothing, or B's tool raises (its
\* edges are then never scanned), or A's tool raises (no edge is ever scanned)
ToolChoices == {<<"inc", "noop">>, <<"inc", "boom">>, <<"boom", "noop">>}

GraphOfShape(tools, ea, eb, m) ==
    Graph(<<Node("A", tools[1]), Node("B", tools[2])>>,
          IF tools[1] = "boom" THEN <<>> ELSE IF tools[2] = "boom" THEN ea ELSE ea \o eb,
          m)

\* the GraphDefinition payloads submitted to create_graph
GraphDefs ==
    {GraphOfShape(tools, ea, eb, m) :
        tools \in ToolChoices, ea \in SeqsUpTo(EdgesFromA, MaxEdges),
        eb \in EdgesFromB, m \in 1..MaxLoopsBound}

InitialStates == {Dict1("counter", 0)}

\* GraphDefinition.max_loops when the payload gives none
DefaultMaxLoops == 100

\* A -> B unconditional, B -> A when state.counter < 3; A increments counter
ScenarioGraph ==
    [nodes |-> <<Node("A", "inc"), Node("B", "noop")>>,
     edges |-> <<Edge("A", "B", NoCond), Edge("B", "A", CondLt(3))>>,
     start_node |-> "A", max_loops |-> DefaultMaxLoops]

\* the graphs submitted when two runs execute concurrently: the scenario, a
\* cycle cut by the loop limit, a tool that raises, a condition that pops
ConcurrentDefs ==
    {ScenarioGraph,
     Graph(<<Node("A", "inc"), Node("B", "noop")>>, <<Edge("A", "A", CondLt(2))>>, 1),
     Graph(<<Node("A", "inc"), Node("B", "boom")>>, <<Edge("A", "B", NoCond)>>, 1),
     Graph(<<Node("A", "noop"), Node("B", "inc")>>,
           <<Edge("A", "B", CondPop(1)), Edge("B", "A", CondLt(1))>>, 1)}

\* the initial_state payloads of those runs
ConcurrentStates ==
    {EmptyDict, Dict1("counter", 0),
     [k \in {"counter", "x"} |-> IF k = "counter" THEN 0 ELSE 1]}

\* the graphs submitted when a websocket client follows a run: two nodes in a
\* line, a tool that raises, a cycle cut by the loop limit
StreamDefs ==
    {Graph(<<Node("A", "inc"), Node("B", "noop")>>, <<Edge("A", "B", NoCond)>>, 1),
     Graph(<<Node("A", "boom"), Node("B", "noop")>>, <<>>, 1),
     Graph(<<Node("A", "inc"), Node("B", "noop")>>, <<Edge("A", "A", NoCond)>>, 1)}

\* the graph submitted when two websocket clients subscribe to one run
RegistryDefs ==
    {Graph(<<Node("A", "boom"), Node("B", "noop")>>, <<>>, 1)}

\* payloads validate_graph has to refuse: start node, edge target, edge source
\* and tool that are not declared
InvalidDefs ==
    {[nodes |-> <<Node("A", "inc")>>, edges |-> <<>>,
      start_node |-> "Z", max_loops |-> 1],
     [nodes |-> <<Node("A", "inc")>>, edges |-> <<Edge("A", "Z", NoCond)>>,
      start_node |-> "A", max_loops |-> 1],
     [nodes |-> <<Node("A", "inc")>>, edges |-> <<Edge("Z", "A", NoCond)>>,
      start_node |-> "A", max_loops |-> 1],
     [nodes |-> <<Node("A", "nonexistent")>>, edges |-> <<>>,
      start_node |-> "A", max_loops |-> 1]}

\* the graph submitted when two runs execute, each followed by its own
\* websocket client: one node, whose visit is logged
IsolationDefs == {Graph(<<Node("A", "inc")>>, <<>>, 1)}

\* the run id in the URL of each of those clients
IsolationTarget == [w \in Sockets |-> IF w = "w1" THEN "r1" ELSE "r2"]

\* payloads at the edge of what GraphDefinition and validate_graph admit: a
\* node whose id is the empty string (as start node, and as edge target), and
\* max_loops below 1
BoundaryDefs ==
    {[Graph(<<Node("", "inc")>>, <<>>, 1) EXCEPT !.start_node = ""],
     Graph(<<Node("A", "inc"), Node("", "noop")>>, <<Edge("A", "", NoCond)>>, 1),
     Graph(<<Node("A", "inc")>>, <<Edge("A", "A", NoCond)>>, 0),
     Graph(<<Node("A", "inc")>>, <<Edge("A", "A", NoCond)>>, -1)}

\* The requests explored.  "routing": every graph of GraphDefs, one run, no
\* websocket client.  "concurrent": the graphs of ConcurrentDefs, two runs.
\* "streaming": the graphs of StreamDefs, one run, one websocket client for
\* that run or for a run that does not exist.  "registry": the graph of
\* RegistryDefs, one run, two websocket clients for it.
Scopes == {"routing", "concurrent", "streaming", "registry"}

SubmittedDefs(sc) ==
    CASE sc = "routing" -> GraphDefs
      [] sc = "concurrent" -> ConcurrentDefs
      [] sc = "streaming" -> StreamDefs
      [] sc = "boundary" -> BoundaryDefs
      [] OTHER -> RegistryDefs

SubmittedStates(sc) == IF sc = "concurrent" THEN ConcurrentStates ELSE InitialStates

ScopeRuns(sc) == IF sc = "concurrent" THEN RunIds ELSE {"r1"}

ScopeSockets(sc) ==
    CASE sc = "streaming" -> {"w1"}
      [] sc = "registry" -> Sockets
      [] OTHER -> {}

\* the run ids in the URLs of the websocket connections
ScopeTargets(sc) == IF sc = "streaming" THEN RunIds ELSE {"r1"}

\* the next identifier of a pool: the first of `order` not in `used`
FirstFree(order, pool, used) ==
    {order[i] : i \in {j \in DOMAIN order :
                          /\ order[j] \in pool \ used
                          /\ \A h \in 1..(j - 1) : order[h] \notin pool \ used}}

\* the validation without its loop over the edges
validate_graph_noEdges(def) ==
    LET node_ids == {def.nodes[i].id : i \in DOMAIN def.nodes}
    IN  /\ \A i \in DOMAIN def.nodes : def.nodes[i].tool \in Registry
        /\ def.start_node \in node_ids

\* validate_graph: TRUE iff no ValueError is raised
validate_graph(def) ==
    LET node_ids == {def.nodes[i].id : i \in DOMAIN def.nodes}
    IN  /\ \A i \in DOMAIN def.nodes : def.nodes[i].tool \in Registry
        /\ def.start_node \in node_ids
        /\ \A i \in DOMAIN def.edges :
              def.edges[i].from_node \in node_ids /\ def.edges[i].to_node \in node_ids

----------------------------------------------------------------------------
(* Helpers of _execute_workflow *)

\* next((n for n in graph.nodes if n.id == current_node), None): index or 0
RECURSIVE FirstNodeIndex(_, _, _)
FirstNodeIndex(nodes, id, i) ==
    IF i > Len(nodes) THEN 0
    ELSE IF nodes[i].id = id THEN i
    ELSE FirstNodeIndex(nodes, id, i + 1)

\* [e for e in graph.edges if e.from_node == run_state.current_node]
RECURSIVE EdgesFrom(_, _)
EdgesFrom(edges, id) ==
    IF edges = <<>> THEN <<>>
    ELSE IF Head(edges).from_node = id
         THEN <<Head(edges)>> \o EdgesFrom(Tail(edges), id)
         ELSE EdgesFrom(Tail(edges), id)

\* Scan with the first-true break lost: a later matching edge overrides
RECURSIVE Scan_lastMatch(_, _)
Scan_lastMatch(es, s) ==
    IF es = <<>> THEN [next |-> Null, state |-> s]
    ELSE LET e == Head(es) IN
         IF e.condition.kind # "none"
         THEN LET ev == simple_eval(e.condition, s)
                  rest == Scan_lastMatch(Tail(es), ev.state)
              IN  IF ev.ok /\ ev.value /\ rest.next = Null
                  THEN [next |-> e.to_node, state |-> rest.state]
                  ELSE rest
         ELSE [next |-> e.to_node, state |-> s]

\* Scan with an unconditional edge as the fallback: the edges after it are
\* still scanned and one that matches is taken in its place
RECURSIVE Scan_fallback(_, _)
Scan_fallback(es, s) ==
    IF es = <<>> THEN [next |-> Null, state |-> s]
    ELSE LET e == Head(es) IN
         IF e.condition.kind # "none"
         THEN LET ev == simple_eval(e.condition, s) IN
              IF ev.ok /\ ev.value
              THEN [next |-> e.to_node, state |-> ev.state]
              ELSE Scan_fallback(Tail(es), ev.state)
         ELSE LET rest == Scan_fallback(Tail(es), s)
              IN  IF rest.next # Null THEN rest
                  ELSE [next |-> e.to_node, state |-> rest.state]

\* Scan with break in place of continue in the except clause
RECURSIVE Scan_breakOnError(_, _)
Scan_breakOnError(es, s) ==
    IF es = <<>> THEN [next |-> Null, state |-> s]
    ELSE LET e == Head(es) IN
         IF e.condition.kind # "none"
         THEN LET ev == simple_eval(e.condition, s) IN
              IF ~ev.ok THEN [next |-> Null, state |-> ev.state]
              ELSE IF ev.value THEN [next |-> e.to_node, state |-> ev.state]
              ELSE Scan_breakOnError(Tail(es), ev.state)
         ELSE [next |-> e.to_node, state |-> s]

\* the for-loop over the edges (lines 151-171): the node selected (next) and
\* the state dict after the evaluations
RECURSIVE Scan(_, _)
Scan(es, s) ==
    IF es = <<>> THEN [next |-> Null, state |-> s]
    ELSE LET e == Head(es) IN
         IF e.condition.kind # "none"
         THEN LET ev == simple_eval(e.condition, s) IN
              IF ev.ok /\ ev.value
              THEN [next |-> e.to_node, state |-> ev.state]  \* break
              ELSE Scan(Tail(es), ev.state)                  \* falsy, or except: continue
         ELSE [next |-> e.to_node, state |-> s]              \* unconditional: break

\* the limit test with >= in place of >
LoopLimitExceeded_ge(count, max_loops) == count >= max_loops

\* line 175: loop_counters[current_node] > graph.max_loops
LoopLimitExceeded(count, max_loops) == count > max_loops

\* the graph argument of _execute_workflow: the definition start_run fetched
\* with get_graph (stored definitions are never replaced)
GraphOf(r) == graphs[run_state[r].graph_id]

\* one dict of counters for all the runs in place of one per run
CounterGet_shared(lc, id) ==
    Cardinality({<<r, i>> \in (DOMAIN task) \X (1..(2 * DefaultMaxLoops)) :
                    id \in DOMAIN task[r].loop_counters
                    /\ i <= task[r].loop_counters[id]})

\* loop_counters.get(node, 0)
CounterGet(lc, id) == IF id \in DOMAIN lc THEN lc[id] ELSE 0

\* storage.logs.get(run_id, []) / SELECT ... WHERE run_id
get_logs(r) == IF r \in DOMAIN logs THEN logs[r] ELSE <<>>

\* {"type": "log", "node_id": ..., "data": log.model_dump()}: of the data the
\* timestamp is kept, which tells the entries of a run apart
LogEvent(log) ==
    [type |-> "log", status |-> "", node_id |-> log.node_id, message |-> NoMessage,
     timestamp |-> log.timestamp]
\* {"type": "status", "status": ..., "message": ...}
StatusEvent(st, msg) ==
    [type |-> "status", status |-> st, node_id |-> "", message |-> msg, timestamp |-> 0]

\* a storage call can raise only in the SQLite back end
StorageOutcomes == IF storageKind = "sqlite" THEN {TRUE, FALSE} ELSE {TRUE}

\* what save_run leaves in storage for a run object: InMemoryStorage keeps the
\* object itself, SQLiteStorage writes the columns of DBRun (no message column)
Persisted(rs) == IF storageKind = "memory" THEN rs ELSE [rs EXCEPT !.message = NoMessage]

\* one WorkflowState object shared by all the runs in place of one per run
SetRun_shared(r, rs, save) ==
    /\ run_state' = [q \in DOMAIN run_state |-> rs]
    /\ runs' = IF storageKind = "memory" \/ save
               THEN [q \in DOMAIN runs |-> Persisted(rs)]
               ELSE runs

\* Assignments to fields of the run object: InMemoryStorage.runs holds the
\* same object, so the stored run changes with it; SQLiteStorage holds a row
\* that only save_run rewrites.
SetRun(r, rs, save) ==
    /\ run_state' = [run_state EXCEPT ![r] = rs]
    /\ runs' = IF storageKind = "memory" \/ save
               THEN [runs EXCEPT ![r] = Persisted(rs)]
               ELSE runs

\* connection.send_text(message) succeeds while the connection is open: the
\* client has not left and the endpoint serving it has not returned
SendOk(w) == endpoint[w].alive

\* what a client holds after one more message reached it
EmptyInbox == [events |-> EmptyBag, late |-> {}, run_ids |-> {}]
Deliver(box, ev) ==
    [events |-> box.events (+) SetToBag({ev}),
     late |-> IF /\ ev.type = "status"
                 /\ \E e \in BagToSet(box.events) :
                        e.type = "status" /\ e.status \in {"completed", "failed"}
              THEN box.late \cup {ev.status}
              ELSE box.late,
     run_ids |-> box.run_ids]

\* the "run_id" key of a message delivered: every caller of broadcast_log and
\* broadcast_status puts in it the run id it passes as first argument
Stamp(box, r) == [box EXCEPT !.run_ids = @ \cup {r}]

\* list.remove(x): the list without the first occurrence of x
RECURSIVE ListRemove(_, _)
ListRemove(l, x) ==
    IF l = <<>> THEN <<>>
    ELSE IF Head(l) = x THEN Tail(l)
    ELSE <<Head(l)>> \o ListRemove(Tail(l), x)

InList(l, x) == \E i \in DOMAIN l : l[i] = x

\* for conn in disconnected: if conn in list: list.remove(conn)
RECURSIVE RemoveEach(_, _)
RemoveEach(l, gone) ==
    IF gone = <<>> THEN l
    ELSE RemoveEach(IF InList(l, Head(gone)) THEN ListRemove(l, Head(gone)) ELSE l,
                    Tail(gone))

\* the removal that leaves an emptied list in the registry
Unregister_keepEmpty(reg, r, gone) ==
    IF r \notin DOMAIN reg THEN reg
    ELSE [reg EXCEPT ![r] = RemoveEach(reg[r], gone)]

\* the registry after connections `gone` were removed from the list of run r
\* (if r is registered) and the list deleted if that left it empty
Unregister(reg, r, gone) ==
    IF r \notin DOMAIN reg THEN reg
    ELSE LET l == RemoveEach(reg[r], gone)
         IN  IF l = <<>> THEN [q \in (DOMAIN reg) \ {r} |-> reg[q]]
             ELSE [reg EXCEPT ![r] = l]

\* the broadcasts in flight once coroutine c has got as far as b: after the
\* last send with nothing to clean up, lines 61-68 do nothing and
\* broadcast_log has returned
InFlight(c, b) ==
    IF b.k = Len(b.connections) /\ b.disconnected = <<>>
    THEN [d \in (DOMAIN bcast) \ {c} |-> bcast[d]]
    ELSE (c :> b) @@ bcast

\* break at the first send_text that fails, in place of collecting it
SendNext_stopOnFailure(c, b) ==
    LET conn == b.connections[b.k + 1]
        ok == SendOk(conn)
    IN  /\ inbox' = IF ok THEN [inbox EXCEPT ![conn] = Stamp(Deliver(@, b.message), b.run_id)]
                    ELSE inbox
        /\ bcast' = InFlight(c, [b EXCEPT !.k = IF ok THEN @ + 1 ELSE Len(b.connections),
                                          !.disconnected = IF ok THEN @ ELSE Append(@, conn)])

\* lines 53-58, one iteration: send_text to the next connection of the copy;
\* a connection whose send raises is appended to `disconnected`
SendNext(c, b) ==
    LET conn == b.connections[b.k + 1]
        ok == SendOk(conn)
    IN  /\ inbox' = IF ok THEN [inbox EXCEPT ![conn] = Stamp(Deliver(@, b.message), b.run_id)]
                    ELSE inbox
        /\ bcast' = InFlight(c, [b EXCEPT !.k = @ + 1,
                                          !.disconnected = IF ok THEN @ ELSE Append(@, conn)])

\* broadcast_log(run_id, log_data) called by coroutine c, up to its first
\* await: return at once if the run has no list (lines 41-42), else copy the
\* list (lines 45-46) and send to its first connection
broadcast_log(c, r, ev) ==
    /\ IF r \notin DOMAIN active_connections \/ active_connections[r] = <<>>
       THEN UNCHANGED <<bcast, inbox>>
       ELSE SendNext(c, [run_id |-> r, message |-> ev,
                         connections |-> active_connections[r],
                         k |-> 0, disconnected |-> <<>>])
    /\ UNCHANGED active_connections

\* tools called in the thread of the event loop: while one runs, the loop
\* resumes no coroutine
Idle_loopHeld(c) ==
    c \notin DOMAIN bcast /\ \A q \in DOMAIN task : task[q].pc # "in_tool"

\* the event loop can resume coroutine c: it is not suspended inside a
\* broadcast.  (Tools run in the executor's threads, lines 107-110, so a tool
\* in progress does not hold the loop.)
Idle(c) == c \notin DOMAIN bcast

\* ws_manager.broadcast_log / broadcast_status called by the task of run r
Publish(r, ev) ==
    /\ published' = [published EXCEPT ![r] = Append(@, ev)]
    /\ broadcast_log(r, r, ev)

SetTask(r, t) == task' = [task EXCEPT ![r] = t]

\* str(e) of the exception a failing storage call raises
StorageError == <<"storage error">>

\* except Exception as e (lines 195-198): status and message are set to
\* "failed" and str(e) (text), then save_run is awaited
OuterExcept(r, rs, text) ==
    /\ SetRun(r, [rs EXCEPT !.status = "failed", !.message = text], FALSE)
    /\ SetTask(r, [task[r] EXCEPT !.pc = "exc_save", !.err = text])

----------------------------------------------------------------------------
\* what the caller of create_graph / start_run gets back: the id returned, or
\* ok = FALSE when the call raised ValueError; def is the graph concerned
Reply(op, ok, id, def) == [op |-> op, ok |-> ok, id |-> id, def |-> def]

NoGraph == [nodes |-> <<>>, edges |-> <<>>, start_node |-> Null, max_loops |-> 0]

Init ==
    /\ scope \in Scopes
    /\ reply = Reply("none", TRUE, Null, NoGraph)
    /\ active_connections = [r \in {} |-> <<>>]
    /\ endpoint = [w \in {} |-> 0]
    /\ bcast = [c \in {} |-> 0]
    /\ inbox = [w \in {} |-> <<>>]
    /\ storageKind \in {"memory", "sqlite"}
    /\ graphs = [g \in {} |-> 0]
    /\ runs = [r \in {} |-> 0]
    /\ logs = [r \in {} |-> 0]
    /\ run_state = [r \in {} |-> 0]
    /\ task = [r \in {} |-> 0]
    /\ published = [r \in {} |-> 0]

\* create_graph: validate (a ValueError leaves the call before anything is
\* stored), draw a graph id, save_graph, return the id
create_graph(g, def) ==
    /\ g \notin DOMAIN graphs
    /\ IF validate_graph(def)
       THEN /\ graphs' = (g :> def) @@ graphs
            /\ reply' = Reply("create_graph", TRUE, g, def)
       ELSE /\ reply' = Reply("create_graph", FALSE, Null, def)
            /\ UNCHANGED graphs
    /\ UNCHANGED <<scope, active_connections, endpoint, bcast, inbox>>
    /\ UNCHANGED <<storageKind, runs, logs, run_state, task, published>>

\* the run record start_run builds (lines 49-55)
NewRun(g, initial_state) ==
    [graph_id |-> g, status |-> "running", current_node |-> graphs[g].start_node,
     state |-> initial_state, message |-> NoMessage]

\* the locals of _execute_workflow when create_task has scheduled it
NewTask(initial_state) ==
    [pc |-> "sleep", loop_counters |-> [n \in {} |-> 0],
     log |-> [node_id |-> Null, input_state |-> EmptyDict,
              output_state |-> EmptyDict, timestamp |-> 0],
     next_node_id |-> Null, raised_at |-> Null, err |-> NoMessage,
     initial_state |-> initial_state, visited |-> <<>>]

\* start_run that stores the run as pending with no current node
start_run_pending(r, g, initial_state) ==
    /\ r \notin DOMAIN run_state
    /\ g \in DOMAIN graphs
    /\ LET rs == [NewRun(g, initial_state) EXCEPT !.status = "pending",
                                                 !.current_node = Null]
       IN  /\ run_state' = (r :> rs) @@ run_state
           /\ runs' = (r :> Persisted(rs)) @@ runs
    /\ task' = (r :> NewTask(initial_state)) @@ task
    /\ published' = (r :> <<>>) @@ published
    /\ reply' = Reply("start_run", TRUE, r, graphs[g])
    /\ UNCHANGED <<scope, active_connections, endpoint, bcast, inbox>>
    /\ UNCHANGED <<storageKind, graphs, logs>>

\* start_run: get_graph, build the WorkflowState, save_run, create_task,
\* return the run id.  An unknown graph id raises ValueError (lines 45-46)
\* and a storage call that raises leaves the call too: both before anything
\* is stored and before create_task.
start_run(r, g, initial_state) ==
    /\ r \notin DOMAIN run_state
    /\ IF g \notin DOMAIN graphs
       THEN /\ reply' = Reply("start_run", FALSE, Null, NoGraph)
            /\ UNCHANGED <<run_state, runs, task, published>>
       ELSE \E ok \in StorageOutcomes :
               IF ok
               THEN /\ run_state' = (r :> NewRun(g, initial_state)) @@ run_state
                    /\ runs' = (r :> Persisted(NewRun(g, initial_state))) @@ runs
                    /\ task' = (r :> NewTask(initial_state)) @@ task
                    /\ published' = (r :> <<>>) @@ published
                    /\ reply' = Reply("start_run", TRUE, r, graphs[g])
               ELSE /\ reply' = Reply("start_run", FALSE, Null, graphs[g])
                    /\ UNCHANGED <<run_state, runs, task, published>>
    /\ UNCHANGED <<scope, active_connections, endpoint, bcast, inbox>>
    /\ UNCHANGED <<storageKind, graphs, logs>>

\* lines 72-75: the initial sleep, then broadcast_status(run_id, "running", ...)
Begin(r) ==
    /\ task[r].pc = "sleep" /\ Idle(r)
    /\ Publish(r, StatusEvent("running", <<"Workflow execution started">>))
    /\ SetTask(r, [task[r] EXCEPT !.pc = "loop"])
    /\ UNCHANGED <<scope, reply, endpoint, storageKind, graphs, runs, logs, run_state>>

\* lines 79-110: loop test, node and tool lookup, input snapshot, and the tool
\* handed to the executor (run_in_executor): the task is suspended until the
\* worker thread has run it
RunNode(r) ==
    /\ task[r].pc = "loop" /\ Idle(r)
    /\ LET rs == run_state[r]
           g == GraphOf(r)
           i == FirstNodeIndex(g.nodes, rs.current_node, 1)
       IN  IF Falsy(rs.current_node)
           THEN /\ SetTask(r, [task[r] EXCEPT !.pc = "done"])
                /\ UNCHANGED <<run_state, runs>>
           ELSE IF i = 0
           THEN OuterExcept(r, rs, <<"Node definition missing during execution", rs.current_node>>)
           ELSE IF g.nodes[i].tool \notin Registry
           THEN OuterExcept(r, rs, <<"Tool missing", g.nodes[i].tool>>)
           ELSE /\ SetTask(r, [task[r] EXCEPT !.pc = "in_tool"])
                /\ UNCHANGED <<run_state, runs>>
    /\ UNCHANGED <<scope, reply, endpoint, storageKind, graphs, logs, published>>
    /\ UNCHANGED <<active_connections, bcast, inbox>>

\* lines 107-118 and 123-134: the worker thread has run the tool; the merge
\* of its result and the construction of the log, or the handler of the
\* exception it raised
ToolReturn(r) ==
    /\ task[r].pc = "in_tool"
    /\ LET rs == run_state[r]
           g == GraphOf(r)
           i == FirstNodeIndex(g.nodes, rs.current_node, 1)
           call == ToolCall(g.nodes[i].tool, rs.state)
           merged == IF call.isdict THEN DictUpdate(rs.state, call.value)
                     ELSE rs.state
       IN  IF call.raised
           THEN /\ SetRun(r, [rs EXCEPT !.status = "failed",
                               !.message = <<"Error in node", g.nodes[i].id, call.text>>],
                          FALSE)
                /\ SetTask(r, [task[r] EXCEPT !.pc = "tool_fail_save",
                                              !.raised_at = g.nodes[i].id])
           ELSE /\ SetRun(r, [rs EXCEPT !.state = merged], FALSE)
                /\ SetTask(r, [task[r] EXCEPT !.pc = "add_log",
                       !.visited = Append(@, g.nodes[i].id),
                       !.log = [node_id |-> g.nodes[i].id,
                                input_state |-> rs.state,
                                output_state |-> merged,
                                timestamp |-> Len(task[r].visited) + 1]])
    /\ UNCHANGED <<scope, reply, endpoint, storageKind, graphs, logs, published>>
    /\ UNCHANGED <<active_connections, bcast, inbox>>

\* line 119: save_run in the tool-error handler
SaveToolFailure(r) ==
    /\ task[r].pc = "tool_fail_save" /\ Idle(r)
    /\ \E ok \in StorageOutcomes :
          IF ok
          THEN /\ SetRun(r, run_state[r], TRUE)
               /\ SetTask(r, [task[r] EXCEPT !.pc = "tool_fail_bcast"])
          ELSE OuterExcept(r, run_state[r], StorageError)
    /\ UNCHANGED <<scope, reply, endpoint, storageKind, graphs, logs, published>>
    /\ UNCHANGED <<active_connections, bcast, inbox>>

\* lines 120-121: broadcast_status(run_id, "failed", message); return
PublishToolFailure(r) ==
    /\ task[r].pc = "tool_fail_bcast" /\ Idle(r)
    /\ Publish(r, StatusEvent("failed", run_state[r].message))
    /\ SetTask(r, [task[r] EXCEPT !.pc = "done"])
    /\ UNCHANGED <<scope, reply, endpoint, storageKind, graphs, runs, logs, run_state>>

\* add_log that keeps the latest entry only
AddLog_overwrite(r) ==
    /\ task[r].pc = "add_log" /\ Idle(r)
    /\ logs' = (r :> <<task[r].log>>) @@ logs
    /\ SetTask(r, [task[r] EXCEPT !.pc = "bcast_log"])
    /\ UNCHANGED <<run_state, runs>>
    /\ UNCHANGED <<scope, reply, endpoint, storageKind, graphs, published>>
    /\ UNCHANGED <<active_connections, bcast, inbox>>

\* add_log appending to one list shared by all the runs
AddLog_sharedList(r) ==
    /\ task[r].pc = "add_log" /\ Idle(r)
    /\ \E ok \in StorageOutcomes :
          IF ok
          THEN /\ logs' = [q \in DOMAIN run_state |-> Append(get_logs(q), task[r].log)]
               /\ SetTask(r, [task[r] EXCEPT !.pc = "bcast_log"])
               /\ UNCHANGED <<run_state, runs>>
          ELSE /\ OuterExcept(r, run_state[r], StorageError)
               /\ UNCHANGED logs
    /\ UNCHANGED <<scope, reply, endpoint, storageKind, graphs, published>>
    /\ UNCHANGED <<active_connections, bcast, inbox>>

\* line 135: storage.add_log(log)
AddLog(r) ==
    /\ task[r].pc = "add_log" /\ Idle(r)
    /\ \E ok \in StorageOutcomes :
          IF ok
          THEN /\ logs' = IF r \in DOMAIN logs
                          THEN [logs EXCEPT ![r] = Append(@, task[r].log)]
                          ELSE (r :> <<task[r].log>>) @@ logs
               /\ SetTask(r, [task[r] EXCEPT !.pc = "bcast_log"])
               /\ UNCHANGED <<run_state, runs>>
          ELSE /\ OuterExcept(r, run_state[r], StorageError)
               /\ UNCHANGED logs
    /\ UNCHANGED <<scope, reply, endpoint, storageKind, graphs, published>>
    /\ UNCHANGED <<active_connections, bcast, inbox>>

\* lines 138-143: broadcast_log(run_id, {"type": "log", ...})
PublishLog(r) ==
    /\ task[r].pc = "bcast_log" /\ Idle(r)
    /\ Publish(r, LogEvent(task[r].log))
    /\ SetTask(r, [task[r] EXCEPT !.pc = "route"])
    /\ UNCHANGED <<scope, reply, endpoint, storageKind, graphs, runs, logs, run_state>>

\* lines 145-190: the routing scan, the loop counter and its limit, and the
\* assignment of the transition, up to the save_run that follows
Route(r) ==
    /\ task[r].pc = "route" /\ Idle(r)
    /\ LET rs == run_state[r]
           g == GraphOf(r)
           cur == rs.current_node
           sc == Scan(EdgesFrom(g.edges, cur), rs.state)
           lc == (cur :> (CounterGet(task[r].loop_counters, cur) + 1))
                    @@ task[r].loop_counters
           t == [task[r] EXCEPT !.loop_counters = lc, !.next_node_id = sc.next]
           scanned == [rs EXCEPT !.state = sc.state]
       IN  IF LoopLimitExceeded(lc[cur], g.max_loops)
           THEN /\ SetRun(r, [scanned EXCEPT !.status = "failed",
                               !.message = <<"Max loops exceeded at node", cur>>], FALSE)
                /\ SetTask(r, [t EXCEPT !.pc = "limit_save"])
           ELSE IF ~Falsy(sc.next)
           THEN /\ SetRun(r, [scanned EXCEPT !.current_node = sc.next], FALSE)
                /\ SetTask(r, [t EXCEPT !.pc = "trans_save"])
           ELSE /\ SetRun(r, [scanned EXCEPT !.current_node = Null,
                               !.status = "completed"], FALSE)
                /\ SetTask(r, [t EXCEPT !.pc = "done_save"])
    /\ UNCHANGED <<scope, reply, endpoint, storageKind, graphs, logs, published>>
    /\ UNCHANGED <<active_connections, bcast, inbox>>

\* line 178: save_run after the loop limit was exceeded
SaveLimit(r) ==
    /\ task[r].pc = "limit_save" /\ Idle(r)
    /\ \E ok \in StorageOutcomes :
          IF ok
          THEN /\ SetRun(r, run_state[r], TRUE)
               /\ SetTask(r, [task[r] EXCEPT !.pc = "limit_bcast"])
          ELSE OuterExcept(r, run_state[r], StorageError)
    /\ UNCHANGED <<scope, reply, endpoint, storageKind, graphs, logs, published>>
    /\ UNCHANGED <<active_connections, bcast, inbox>>

\* lines 179-180: broadcast_status(run_id, "failed", message); return
PublishLimit(r) ==
    /\ task[r].pc = "limit_bcast" /\ Idle(r)
    /\ Publish(r, StatusEvent("failed", run_state[r].message))
    /\ SetTask(r, [task[r] EXCEPT !.pc = "done"])
    /\ UNCHANGED <<scope, reply, endpoint, storageKind, graphs, runs, logs, run_state>>

\* the transition without its save_run
SaveTransition_skip(r) ==
    /\ task[r].pc = "trans_save" /\ Idle(r)
    /\ SetTask(r, [task[r] EXCEPT !.pc = "loop"])
    /\ UNCHANGED <<scope, reply, endpoint, storageKind, graphs, logs, published, run_state, runs>>
    /\ UNCHANGED <<active_connections, bcast, inbox>>

\* line 186: save_run after the transition to the next node
SaveTransition(r) ==
    /\ task[r].pc = "trans_save" /\ Idle(r)
    /\ \E ok \in StorageOutcomes :
          IF ok
          THEN /\ SetRun(r, run_state[r], TRUE)
               /\ SetTask(r, [task[r] EXCEPT !.pc = "loop"])
          ELSE OuterExcept(r, run_state[r], StorageError)
    /\ UNCHANGED <<scope, reply, endpoint, storageKind, graphs, logs, published>>
    /\ UNCHANGED <<active_connections, bcast, inbox>>

\* line 191: save_run of the completed run
SaveCompleted(r) ==
    /\ task[r].pc = "done_save" /\ Idle(r)
    /\ \E ok \in StorageOutcomes :
          IF ok
          THEN /\ SetRun(r, run_state[r], TRUE)
               /\ SetTask(r, [task[r] EXCEPT !.pc = "done_bcast"])
          ELSE OuterExcept(r, run_state[r], StorageError)
    /\ UNCHANGED <<scope, reply, endpoint, storageKind, graphs, logs, published>>
    /\ UNCHANGED <<active_connections, bcast, inbox>>

\* lines 192-193: broadcast_status(run_id, "completed", ...); break
PublishCompleted(r) ==
    /\ task[r].pc = "done_bcast" /\ Idle(r)
    /\ Publish(r, StatusEvent("completed", <<"Workflow completed successfully">>))
    /\ SetTask(r, [task[r] EXCEPT !.pc = "done"])
    /\ UNCHANGED <<scope, reply, endpoint, storageKind, graphs, runs, logs, run_state>>

\* line 199: save_run in the outer handler; an exception raised here leaves
\* the coroutine
SaveException(r) ==
    /\ task[r].pc = "exc_save" /\ Idle(r)
    /\ \E ok \in StorageOutcomes :
          IF ok
          THEN /\ SetRun(r, run_state[r], TRUE)
               /\ SetTask(r, [task[r] EXCEPT !.pc = "exc_bcast"])
          ELSE /\ SetTask(r, [task[r] EXCEPT !.pc = "crashed"])
               /\ UNCHANGED <<run_state, runs>>
    /\ UNCHANGED <<scope, reply, endpoint, storageKind, graphs, logs, published>>
    /\ UNCHANGED <<active_connections, bcast, inbox>>

\* line 200: broadcast_status(run_id, "failed", str(e))
PublishException(r) ==
    /\ task[r].pc = "exc_bcast" /\ Idle(r)
    /\ Publish(r, StatusEvent("failed", task[r].err))
    /\ SetTask(r, [task[r] EXCEPT !.pc = "done"])
    /\ UNCHANGED <<scope, reply, endpoint, storageKind, graphs, runs, logs, run_state>>

\* one step of the task of run r
TaskStep(r) ==
    \/ Begin(r) \/ RunNode(r) \/ ToolReturn(r)
    \/ SaveToolFailure(r) \/ PublishToolFailure(r)
    \/ AddLog(r) \/ PublishLog(r) \/ Route(r)
    \/ SaveLimit(r) \/ PublishLimit(r) \/ SaveTransition(r)
    \/ SaveCompleted(r) \/ PublishCompleted(r)
    \/ SaveException(r) \/ PublishException(r)

----------------------------------------------------------------------------
(* The connection manager and the websocket endpoint *)

engine_vars == <<storageKind, graphs, runs, logs, run_state, task, published>>

\* one list of connections for all the runs in place of one per run id
Register_shared(reg, r, w) ==
    IF "r1" \in DOMAIN reg THEN [reg EXCEPT !["r1"] = Append(@, w)]
    ELSE ("r1" :> <<w>>) @@ reg

\* connect, lines 22-25: the list of the run is created if missing, then the
\* websocket appended
Register(reg, r, w) ==
    IF r \in DOMAIN reg THEN [reg EXCEPT ![r] = Append(@, w)]
    ELSE (r :> <<w>>) @@ reg

\* disconnect that drops the whole list of the run
disconnect_dropList(reg, w, r) == [q \in (DOMAIN reg) \ {r} |-> reg[q]]

\* disconnect, lines 30-36: the websocket is removed from the list of the run
\* if it is there, and the list is deleted if it is empty
disconnect(reg, w, r) == Unregister(reg, r, <<w>>)

SetEndpoint(w, e) == endpoint' = [endpoint EXCEPT ![w] = e]

\* routes.py line 127: ws_manager.connect accepts the websocket and registers
\* it under the run id of the URL
WsConnect(w, r) ==
    /\ w \notin DOMAIN endpoint
    /\ active_connections' = Register(active_connections, r, w)
    /\ endpoint' = (w :> [pc |-> "get_run", run_id |-> r, alive |-> TRUE,
                          status |-> Null, i |-> 0, n |-> 0]) @@ endpoint
    /\ inbox' = (w :> EmptyInbox) @@ inbox
    /\ UNCHANGED <<scope, reply, bcast>>
    /\ UNCHANGED engine_vars

\* routes.py lines 130-134: get_run; an unknown run disconnects and closes the
\* websocket; a storage error leaves the endpoint (the call is outside the try)
WsGetRun(w) ==
    /\ endpoint[w].pc = "get_run"
    /\ LET r == endpoint[w].run_id IN
       \E ok \in StorageOutcomes :
          IF ~ok
          THEN /\ SetEndpoint(w, [endpoint[w] EXCEPT !.pc = "aborted", !.alive = FALSE])
               /\ UNCHANGED active_connections
          ELSE IF r \in DOMAIN runs
          THEN /\ SetEndpoint(w, [endpoint[w] EXCEPT !.pc = "init_status",
                                                     !.status = runs[r].status])
               /\ UNCHANGED active_connections
          ELSE /\ SetEndpoint(w, [endpoint[w] EXCEPT !.pc = "closed", !.alive = FALSE])
               /\ active_connections' = disconnect(active_connections, w, r)
    /\ UNCHANGED <<scope, reply, bcast, inbox>>
    /\ UNCHANGED engine_vars

\* routes.py lines 138-142: broadcast_status(run_id, run.status, "Connected
\* to workflow ..."); with InMemoryStorage `run` is the run object itself
WsInitStatus(w) ==
    /\ endpoint[w].pc = "init_status"
    /\ LET r == endpoint[w].run_id
           status == IF storageKind = "memory" THEN runs[r].status
                     ELSE endpoint[w].status
       IN  broadcast_log(w, r, StatusEvent(status, <<"Connected to workflow", r>>))
    /\ SetEndpoint(w, [endpoint[w] EXCEPT !.pc = "get_logs"])
    /\ UNCHANGED <<scope, reply>>
    /\ UNCHANGED engine_vars

\* routes.py lines 146-158, `for log in logs` from its i-th iteration with
\* the list holding n entries: the broadcast_log of the next entry, or the end
\* of the loop and the first receive_text
Replay(w, r, i, n) ==
    IF i < n
    THEN /\ broadcast_log(w, r, LogEvent(get_logs(r)[i + 1]))
         /\ SetEndpoint(w, [endpoint[w] EXCEPT !.pc = "replay", !.i = i + 1, !.n = n])
    ELSE /\ SetEndpoint(w, [endpoint[w] EXCEPT !.pc = "listen", !.i = i, !.n = n])
         /\ UNCHANGED <<active_connections, bcast, inbox>>

\* routes.py lines 145-147: get_logs and the start of the loop over its
\* result; a storage error is caught at line 165 and the finally clause
\* disconnects
WsGetLogs(w) ==
    /\ endpoint[w].pc = "get_logs" /\ Idle(w)
    /\ LET r == endpoint[w].run_id IN
       \E ok \in StorageOutcomes :
          IF ok
          THEN Replay(w, r, 0, Len(get_logs(r)))
          ELSE /\ SetEndpoint(w, [endpoint[w] EXCEPT !.pc = "closed", !.alive = FALSE])
               /\ active_connections' = disconnect(active_connections, w, r)
               /\ UNCHANGED <<bcast, inbox>>
    /\ UNCHANGED <<scope, reply>>
    /\ UNCHANGED engine_vars

\* routes.py lines 146-152: the broadcast_log awaited has returned and the
\* loop goes on.  InMemoryStorage.get_logs returned the list of the storage
\* itself, which grows under the loop; SQLiteStorage built a new list.
WsReplay(w) ==
    /\ endpoint[w].pc = "replay" /\ Idle(w)
    /\ LET r == endpoint[w].run_id
       IN  Replay(w, r, endpoint[w].i,
                  IF storageKind = "memory" THEN Len(get_logs(r)) ELSE endpoint[w].n)
    /\ UNCHANGED <<scope, reply>>
    /\ UNCHANGED engine_vars

\* routes.py lines 155-169: receive_text raises WebSocketDisconnect once the
\* client is gone; the loop breaks and the finally clause disconnects.  (A
\* text received is answered on this websocket only, or ignored.)
WsReceive(w) ==
    /\ endpoint[w].pc = "listen"
    /\ ~endpoint[w].alive
    /\ SetEndpoint(w, [endpoint[w] EXCEPT !.pc = "closed", !.alive = FALSE])
    /\ active_connections' = disconnect(active_connections, w, endpoint[w].run_id)
    /\ UNCHANGED <<scope, reply, bcast, inbox>>
    /\ UNCHANGED engine_vars

\* the client closes its side of the connection
ClientClose(w) ==
    /\ endpoint[w].alive
    /\ SetEndpoint(w, [endpoint[w] EXCEPT !.alive = FALSE])
    /\ UNCHANGED <<scope, reply, active_connections, bcast, inbox>>
    /\ UNCHANGED engine_vars

\* websocket_manager.py lines 53-58: the send_text awaited has returned and
\* the loop sends to the next connection of the copy
BroadcastStep(c) ==
    /\ bcast[c].k < Len(bcast[c].connections)
    /\ SendNext(c, bcast[c])
    /\ UNCHANGED <<scope, reply, active_connections, endpoint>>
    /\ UNCHANGED engine_vars

\* websocket_manager.py lines 61-68: the loop is over; the connections whose
\* send failed are removed from the registry and broadcast_log returns
BroadcastReturn(c) ==
    /\ bcast[c].k = Len(bcast[c].connections)
    /\ active_connections' =
          Unregister(active_connections, bcast[c].run_id, bcast[c].disconnected)
    /\ bcast' = [d \in (DOMAIN bcast) \ {c} |-> bcast[d]]
    /\ UNCHANGED <<scope, reply, endpoint, inbox>>
    /\ UNCHANGED engine_vars

----------------------------------------------------------------------------
Next ==
    \/ \E g \in GraphIds \ DOMAIN graphs :
          \E def \in SubmittedDefs(scope) : create_graph(g, def)
    \/ \E g \in GraphIds \ DOMAIN graphs :
          \E def \in InvalidDefs : create_graph(g, def)
    \/ \E r \in FirstFree(RunOrder, ScopeRuns(scope), DOMAIN run_state) :
          \E g \in GraphIds, s \in SubmittedStates(scope) : start_run(r, g, s)
    \/ \E w \in FirstFree(SocketOrder, ScopeSockets(scope), DOMAIN endpoint) :
          \E r \in ScopeTargets(scope) : WsConnect(w, r)
    \/ \E w \in DOMAIN endpoint : WsGetRun(w)
    \/ \E w \in DOMAIN endpoint : WsInitStatus(w)
    \/ \E w \in DOMAIN endpoint : WsGetLogs(w)
    \/ \E w \in DOMAIN endpoint : WsReplay(w)
    \/ \E w \in DOMAIN endpoint : WsReceive(w)
    \/ \E w \in DOMAIN endpoint : ClientClose(w)
    \/ \E c \in DOMAIN bcast : BroadcastStep(c)
    \/ \E c \in DOMAIN bcast : BroadcastReturn(c)
    \/ \E r \in DOMAIN task : Begin(r)
    \/ \E r \in DOMAIN task : RunNode(r)
    \/ \E r \in DOMAIN task : ToolReturn(r)
    \/ \E r \in DOMAIN task : SaveToolFailure(r)
    \/ \E r \in DOMAIN task : PublishToolFailure(r)
    \/ \E r \in DOMAIN task : AddLog(r)
    \/ \E r \in DOMAIN task : PublishLog(r)
    \/ \E r \in DOMAIN task : Route(r)
    \/ \E r \in DOMAIN task : SaveLimit(r)
    \/ \E r \in DOMAIN task : PublishLimit(r)
    \/ \E r \in DOMAIN task : SaveTransition(r)
    \/ \E r \in DOMAIN task : SaveCompleted(r)
    \/ \E r \in DOMAIN task : PublishCompleted(r)
    \/ \E r \in DOMAIN task : SaveException(r)
    \/ \E r \in DOMAIN task : PublishException(r)

Spec == Init /\ [][Next]_vars

----------------------------------------------------------------------------
(* Vocabulary of the properties *)

Terminal(st) == st \in {"completed", "failed"}

Min(S) == CHOOSE x \in S : \A y \in S : x <= y

RECURSIVE SumOver(_, _)
SumOver(f, D) ==
    IF D = {} THEN 0
    ELSE LET x == CHOOSE y \in D : TRUE IN f[x] + SumOver(f, D \ {x})

\* node visits that finished their routing step
Visits(r) == SumOver(task[r].loop_counters, DOMAIN task[r].loop_counters)

\* the routing step of the visit recorded in task[r].log has just run
JustRouted(r) == task[r].pc \in {"trans_save", "done_save", "limit_save"}

\* the edges that routing step scanned, and the state it started from (the
\* output snapshot of the visit's log entry)
RoutedEdges(r) == EdgesFrom(GraphOf(r).edges, task[r].log.node_id)
RoutedFrom(r) == task[r].log.output_state

IsCond(e) == e.condition.kind # "none"

\* the dict bound to `state` when edge i is evaluated after the edges before it
RECURSIVE StateAt(_, _, _)
StateAt(es, s, i) ==
    IF i = 1 THEN s
    ELSE LET before == StateAt(es, s, i - 1)
         IN  IF IsCond(es[i - 1]) THEN simple_eval(es[i - 1].condition, before).state
             ELSE before

EvalTrue(es, s, i) ==
    /\ IsCond(es[i])
    /\ LET ev == simple_eval(es[i].condition, StateAt(es, s, i)) IN ev.ok /\ ev.value

EvalFails(es, s, i) ==
    /\ IsCond(es[i])
    /\ ~simple_eval(es[i].condition, StateAt(es, s, i)).ok

TrueConds(es, s) == {i \in DOMAIN es : EvalTrue(es, s, i)}
Unconds(es) == {i \in DOMAIN es : ~IsCond(es[i])}
Matching(es, s) == TrueConds(es, s) \cup Unconds(es)

\* the edges the scan reaches: those with no matching edge before them
Reached(es, s) == {i \in DOMAIN es : \A j \in Matching(es, s) : j >= i}

LimitMessage(n) == <<"Max loops exceeded at node", n>>
ToolMessage(n, text) == <<"Error in node", n, text>>

HasEvent(r, st) ==
    \E i \in DOMAIN published[r] :
        published[r][i].type = "status" /\ published[r][i].status = st

----------------------------------------------------------------------------
(* C1 - terminal exclusivity: once the status of a run is completed or      *)
(* failed, the run object of the engine never changes again, and once the   *)
(* stored run is completed or failed, the stored run never changes again.   *)
C1_TerminalExclusivity ==
    [][\A r \in DOMAIN run_state :
          /\ Terminal(run_state[r].status) => run_state'[r] = run_state[r]
          /\ Terminal(runs[r].status) => runs'[r] = runs[r]]_vars

(* C2 - a tool raising at node X: the run is failed with a message holding  *)
(* X and the error text, the visit is not logged, no later step of the run  *)
(* invokes a tool, and a failed status event is only published once the     *)
(* failed run is in storage.                                                *)
C2_ToolErrorFailsRun ==
    \A r \in DOMAIN task :
        task[r].raised_at # Null =>
            /\ run_state[r].status = "failed"
            /\ run_state[r].message = ToolMessage(task[r].raised_at, "boom")
            /\ Len(get_logs(r)) = Visits(r)
            /\ task[r].pc \in {"tool_fail_save", "tool_fail_bcast", "exc_save",
                               "exc_bcast", "done", "crashed"}
            /\ HasEvent(r, "failed") => runs[r].status = "failed"

(* C3 - loop limit: the routing step of a visit of node A fails the run     *)
(* with the message naming A exactly when that visit brings A's count above *)
(* max_loops; the count never goes beyond max_loops + 1, and no tool call   *)
(* is a node's (max_loops + 2)-th.                                          *)
C3_LoopLimit ==
    \A r \in DOMAIN task :
        LET N == GraphOf(r).max_loops
            lc == task[r].loop_counters
            n == task[r].log.node_id
        IN  /\ JustRouted(r) =>
                ((CounterGet(lc, n) > N) <=>
                    (run_state[r].status = "failed"
                        /\ run_state[r].message = LimitMessage(n)))
            /\ \A m \in DOMAIN lc : lc[m] <= N + 1
            /\ task[r].pc \in {"add_log", "bcast_log", "route"} => CounterGet(lc, n) + 1 <= N + 1
            /\ task[r].raised_at # Null => CounterGet(lc, task[r].raised_at) + 1 <= N + 1

C3_Witness ==
    \E r \in DOMAIN task :
        /\ task[r].pc = "limit_save"
        /\ GraphOf(r).max_loops = 2
        /\ CounterGet(task[r].loop_counters, task[r].log.node_id) = 3
        /\ run_state[r].message = LimitMessage(task[r].log.node_id)
        /\ task[r].next_node_id = task[r].log.node_id

(* C4 as claimed - when several conditional edges of the current node       *)
(* evaluate true, the node selected is the target of the first of them.     *)
C4_FirstTrueOfSeveral ==
    \A r \in DOMAIN task :
        LET es == RoutedEdges(r)
            T == TrueConds(es, RoutedFrom(r))
        IN  (JustRouted(r) /\ Cardinality(T) >= 2) =>
                task[r].next_node_id = es[Min(T)].to_node

(* C4 amended - when several conditional edges of the current node evaluate *)
(* true and no unconditional edge is declared before the first of them, the *)
(* node selected is the target of that first one, and it is the node the    *)
(* run moves to unless the loop limit fails the run.                        *)
C4_FirstTrueUnlessUncondBefore ==
    \A r \in DOMAIN task :
        LET es == RoutedEdges(r)
            T == TrueConds(es, RoutedFrom(r))
        IN  (JustRouted(r) /\ Cardinality(T) >= 2
                /\ \A j \in Unconds(es) : j > Min(T)) =>
                /\ task[r].next_node_id = es[Min(T)].to_node
                /\ task[r].pc = "trans_save" =>
                      run_state[r].current_node = es[Min(T)].to_node

C4_Witness ==
    \E r \in DOMAIN task :
        LET es == RoutedEdges(r)
            T == TrueConds(es, RoutedFrom(r))
        IN  /\ task[r].pc = "trans_save"
            /\ Cardinality(T) >= 2
            /\ \A j \in Unconds(es) : j > Min(T)
            /\ \E j \in T : es[j].to_node # es[Min(T)].to_node
            /\ run_state[r].current_node = es[Min(T)].to_node

(* C5 - when no conditional edge of the current node evaluates true: the    *)
(* first unconditional edge is the one selected (and followed, unless the   *)
(* loop limit fails the run); with no unconditional edge the run completes. *)
C5_UnconditionalFallback ==
    \A r \in DOMAIN task :
        LET es == RoutedEdges(r)
            U == Unconds(es)
        IN  (JustRouted(r) /\ TrueConds(es, RoutedFrom(r)) = {}) =>
                IF U # {}
                THEN /\ task[r].next_node_id = es[Min(U)].to_node
                     /\ task[r].pc = "trans_save" =>
                           run_state[r].current_node = es[Min(U)].to_node
                ELSE /\ run_state[r].status = "completed"
                     /\ run_state[r].current_node = Null

(* C6 - a routing scan that selects no edge ends the run: current_node is   *)
(* None and the status completed, that run is then saved, and the completed *)
(* status event is published.                                               *)
C6_NoEdgeCompletes ==
    \A r \in DOMAIN task :
        /\ (JustRouted(r) /\ task[r].next_node_id = Null) =>
              /\ run_state[r].status = "completed"
              /\ run_state[r].current_node = Null
        /\ task[r].pc = "done_bcast" =>
              /\ runs[r].status = "completed"
              /\ runs[r].current_node = Null
        /\ (task[r].pc = "done" /\ run_state[r].status = "completed") =>
              published[r][Len(published[r])].status = "completed"

(* C7 - an edge whose condition fails to evaluate counts as not matching:   *)
(* the scan goes on, the node selected is the target of the first edge that *)
(* is unconditional or evaluates true (None if there is none), and the      *)
(* routing step fails the run only through the loop limit.                  *)
C7_EvalFailureIsFalse ==
    \A r \in DOMAIN task :
        LET es == RoutedEdges(r)
            s == RoutedFrom(r)
            M == Matching(es, s)
            n == task[r].log.node_id
        IN  (JustRouted(r) /\ \E i \in Reached(es, s) : EvalFails(es, s, i)) =>
                /\ task[r].next_node_id = IF M = {} THEN Null ELSE es[Min(M)].to_node
                /\ run_state[r].status = "failed" =>
                      /\ run_state[r].message = LimitMessage(n)
                      /\ CounterGet(task[r].loop_counters, n) > GraphOf(r).max_loops

C7_Witness ==
    \E r \in DOMAIN task :
        LET es == RoutedEdges(r)
            s == RoutedFrom(r)
            M == Matching(es, s)
        IN  /\ task[r].pc = "trans_save"
            /\ M # {}
            /\ \E i \in Reached(es, s) : EvalFails(es, s, i) /\ i < Min(M)
            /\ run_state[r].status = "running"
            /\ run_state[r].current_node = es[Min(M)].to_node

(* C8 - the routing scan leaves the shared state as it found it.            *)
C8_ScanLeavesState ==
    \A r \in DOMAIN task :
        JustRouted(r) => run_state[r].state = RoutedFrom(r)

(* C9 - strict sequence: whenever a run is about to invoke a tool, every    *)
(* earlier visit has its log entry in storage, the last of them being the   *)
(* visit just finished, and the stored run holds the node about to run.     *)
C9_StepsInSequence ==
    \A r \in DOMAIN task :
        task[r].pc = "loop" =>
            /\ Len(get_logs(r)) = Visits(r)
            /\ Visits(r) > 0 => get_logs(r)[Visits(r)] = task[r].log
            /\ runs[r].current_node = run_state[r].current_node
            /\ runs[r].status = "running"

C9_Witness ==
    \E r \in DOMAIN task :
        /\ task[r].pc = "loop"
        /\ storageKind = "sqlite"
        /\ Visits(r) = 2
        /\ Len(get_logs(r)) = 2
        /\ run_state[r].current_node # task[r].log.node_id
        /\ runs[r].current_node = run_state[r].current_node

(* C10 - an error raised in the execution loop never leaves the task: the   *)
(* run ends stored as failed with the error text as its message, and the    *)
(* failed status event is the last one published.                           *)
C10_ErrorsAbsorbed ==
    \A r \in DOMAIN task :
        /\ task[r].pc # "crashed"
        /\ (task[r].pc = "done" /\ task[r].err # NoMessage) =>
              /\ runs[r].status = "failed"
              /\ runs[r].message = task[r].err
              /\ published[r][Len(published[r])] = StatusEvent("failed", task[r].err)

----------------------------------------------------------------------------
(* Claims about validation, scenarios, logs and subscribers *)

DeclaredIds(def) == {def.nodes[i].id : i \in DOMAIN def.nodes}

\* the three conditions a graph definition has to meet
WellFormed(def) ==
    LET ids == DeclaredIds(def)
    IN  /\ def.start_node \in ids
        /\ \A i \in DOMAIN def.edges :
              def.edges[i].from_node \in ids /\ def.edges[i].to_node \in ids
        /\ \A i \in DOMAIN def.nodes : def.nodes[i].tool \in Registry

(* C11 - create_graph refuses a definition whose start node or an edge      *)
(* endpoint is not a declared node, or with a tool that is not registered:  *)
(* the call returns no graph id and stores nothing.  Every stored graph     *)
(* meets the three conditions, and every run runs a stored graph.           *)
C11_ValidationGate ==
    /\ (reply.op = "create_graph" /\ ~WellFormed(reply.def)) =>
          /\ ~reply.ok
          /\ reply.id = Null
          /\ \A g \in DOMAIN graphs : graphs[g] # reply.def
    /\ \A g \in DOMAIN graphs : WellFormed(graphs[g])
    /\ \A r \in DOMAIN run_state : run_state[r].graph_id \in DOMAIN graphs

C11_Witness ==
    /\ reply.op = "create_graph"
    /\ ~reply.ok
    /\ \E i \in DOMAIN reply.def.edges : reply.def.edges[i].to_node \notin DeclaredIds(reply.def)
    /\ graphs = << >>

IsPrefix(p, q) == Len(p) <= Len(q) /\ \A i \in 1..Len(p) : p[i] = q[i]

\* the node ids of the stored log entries of a run, in order
LogNodes(r) == [i \in 1..Len(get_logs(r)) |-> get_logs(r)[i].node_id]

\* the run executes the scenario graph from counter = 0
InScenario(r) ==
    /\ GraphOf(r) = ScenarioGraph
    /\ "counter" \in DOMAIN task[r].initial_state
    /\ task[r].initial_state["counter"] = 0

ScenarioVisits == <<"A", "B", "A", "B", "A", "B">>

(* C12 - scenario A -> B, B -> A while counter < 3, from counter = 0: the   *)
(* log grows along A, B, A, B, A, B; the run fails only if a storage call   *)
(* raised; once the task has returned without such an error the log is      *)
(* exactly these six entries, counter is 3 and the run, live and stored, is *)
(* completed.                                                               *)
C12_Scenario ==
    \A r \in DOMAIN task :
        InScenario(r) =>
            /\ IsPrefix(LogNodes(r), ScenarioVisits)
            /\ IsPrefix(task[r].visited, ScenarioVisits)
            /\ run_state[r].status = "failed" => task[r].err = StorageError
            /\ (task[r].pc = "done" /\ task[r].err = NoMessage) =>
                  /\ LogNodes(r) = ScenarioVisits
                  /\ run_state[r].state["counter"] = 3
                  /\ run_state[r].status = "completed"
                  /\ runs[r].status = "completed"
                  /\ runs[r].state["counter"] = 3

C12_Witness ==
    \E r \in DOMAIN task :
        /\ InScenario(r)
        /\ storageKind = "sqlite"
        /\ task[r].pc = "done"
        /\ LogNodes(r) = ScenarioVisits
        /\ runs[r].status = "completed"
        /\ runs[r].state["counter"] = 3

\* the task of the run has returned and no storage call raised on its way
Finished(r) == task[r].pc = "done" /\ task[r].err = NoMessage

SameInputs(r, q) ==
    /\ GraphOf(r) = GraphOf(q)
    /\ task[r].initial_state = task[q].initial_state

(* C13 - determinism: two runs of the same graph from the same initial      *)
(* state go through the same visits: at any time the visits and the log     *)
(* entries of one are a prefix of those of the other, and once both tasks   *)
(* have returned (no storage call having raised) their visits, logs, final  *)
(* state, status and message are the same.                                  *)
C13_Determinism ==
    \A r, q \in DOMAIN task :
        (r # q /\ SameInputs(r, q)) =>
            /\ IsPrefix(task[r].visited, task[q].visited)
                  \/ IsPrefix(task[q].visited, task[r].visited)
            /\ IsPrefix(get_logs(r), get_logs(q)) \/ IsPrefix(get_logs(q), get_logs(r))
            /\ (Finished(r) /\ Finished(q)) =>
                  /\ task[r].visited = task[q].visited
                  /\ get_logs(r) = get_logs(q)
                  /\ run_state[r].state = run_state[q].state
                  /\ run_state[r].status = run_state[q].status
                  /\ run_state[r].message = run_state[q].message
                  /\ runs[r].state = runs[q].state
                  /\ runs[r].status = runs[q].status

C13_Witness ==
    \E r, q \in DOMAIN task :
        /\ r # q
        /\ SameInputs(r, q)
        /\ Finished(r) /\ Finished(q)
        /\ Len(task[r].visited) >= 2
        /\ task[r].visited = task[q].visited
        /\ run_state[r].status = "failed"
        /\ run_state[q].status = "failed"

\* the log entry of the latest visit is being stored, or storing it raised
LastVisitUnlogged(r) ==
    \/ task[r].pc = "add_log"
    \/ task[r].err = StorageError /\ Len(get_logs(r)) < Len(task[r].visited)

\* the stored log against the visits (tool invocations that returned)
LogMatchesVisits(r) ==
    LET l == get_logs(r)
        v == task[r].visited
    IN  /\ Len(l) <= Len(v)
        /\ Len(v) - Len(l) <= 1
        /\ \A i \in DOMAIN l : l[i].node_id = v[i] /\ l[i].timestamp = i
        /\ ~LastVisitUnlogged(r) => Len(l) = Len(v)

(* C14 - the log of a run is append-only and follows the visits: every step *)
(* leaves the stored entries in place and at most appends to them, and the  *)
(* node ids of the entries are the nodes visited so far, in order, the      *)
(* latest visit excepted while its entry is being stored or if storing it   *)
(* raised.                                                                  *)
C14_LogAppendOnly ==
    /\ [](\A r \in DOMAIN task : LogMatchesVisits(r))
    /\ [][\A r \in DOMAIN task :
             \/ get_logs(r)' = get_logs(r)
             \/ IsPrefix(get_logs(r), get_logs(r)')]_vars

C14_Witness ==
    \E r \in DOMAIN task :
        /\ Len(get_logs(r)) >= 3
        /\ get_logs(r)[1].node_id = get_logs(r)[3].node_id
        /\ LogNodes(r) = task[r].visited
        /\ task[r].pc = "bcast_log"

(* C15 - when a routing step has selected a next node and the run is about  *)
(* to invoke that node's tool, current_node is that node, the stored run    *)
(* holds it, and the last event published for the run is a running status.  *)
C15_TransitionPublished ==
    \A r \in DOMAIN task :
        (task[r].pc = "loop" /\ task[r].next_node_id # Null) =>
            /\ run_state[r].current_node = task[r].next_node_id
            /\ runs[r].current_node = task[r].next_node_id
            /\ published[r][Len(published[r])].type = "status"
            /\ published[r][Len(published[r])].status = "running"

\* the tool of the node of the visit recorded in task[r].log
VisitTool(r) ==
    LET g == GraphOf(r)
    IN  g.nodes[FirstNodeIndex(g.nodes, task[r].log.node_id, 1)].tool

\* the tool of the latest visit has returned and its result has been merged
JustMerged(r) == task[r].pc \in {"add_log", "bcast_log", "route"}

(* C16 - shallow merge: after a tool returned mapping R on state S, the     *)
(* shared state has exactly the keys of S and R, with R's value on the keys *)
(* of R and S's value on the others; after a tool returned a non-mapping    *)
(* the state is S; in both cases the visit is logged with S as input and    *)
(* the new state as output.                                                 *)
C16_ShallowMerge ==
    \A r \in DOMAIN task :
        JustMerged(r) =>
            LET S == task[r].log.input_state
                call == ToolCall(VisitTool(r), S)
                R == call.value
                new == run_state[r].state
            IN  /\ ~call.raised
                /\ call.isdict =>
                      /\ DOMAIN new = (DOMAIN S) \cup (DOMAIN R)
                      /\ \A k \in DOMAIN R : new[k] = R[k]
                      /\ \A k \in (DOMAIN S) \ (DOMAIN R) : new[k] = S[k]
                /\ ~call.isdict => new = S
                /\ task[r].log.output_state = new
                /\ task[r].pc \in {"bcast_log", "route"} =>
                      get_logs(r)[Len(get_logs(r))] = task[r].log

C16_Witness ==
    \E r \in DOMAIN task :
        /\ task[r].pc = "bcast_log"
        /\ VisitTool(r) = "inc"
        /\ DOMAIN task[r].log.input_state = {"counter", "x"}
        /\ run_state[r].state["x"] = task[r].log.input_state["x"]
        /\ run_state[r].state["counter"] = task[r].log.input_state["counter"] + 1
        /\ get_logs(r)[Len(get_logs(r))].output_state = run_state[r].state

\* no broadcast is in flight and the task of run r has ended
Settled(r) == bcast = << >> /\ task[r].pc \in {"done", "crashed"}

\* websocket w follows the existing run r, its endpoint is past the replay
\* and the client is still connected
Following(w, r) ==
    /\ endpoint[w].run_id = r
    /\ r \in DOMAIN task
    /\ endpoint[w].pc = "listen"
    /\ endpoint[w].alive

GotLog(w, e) == CopiesIn(LogEvent(e), inbox[w].events) >= 1

GotStatus(w, st) ==
    \E e \in BagToSet(inbox[w].events) : e.type = "status" /\ e.status = st

(* C17 - a subscriber of an existing run that stays connected has, once the *)
(* task of the run has ended and every broadcast has returned, received a   *)
(* log event for every entry of the run's log and a status event carrying   *)
(* the terminal status of the run.                                          *)
C17_SubscriberSeesRun ==
    \A w \in DOMAIN endpoint : \A r \in DOMAIN task :
        (Following(w, r) /\ Settled(r)) =>
            /\ \A i \in DOMAIN get_logs(r) : GotLog(w, get_logs(r)[i])
            /\ Terminal(run_state[r].status)
            /\ GotStatus(w, run_state[r].status)

(* C18 - at most once: no websocket is delivered the event of one log entry *)
(* more than once.                                                          *)
C18_AtMostOnce ==
    \A w \in DOMAIN inbox :
        \A e \in BagToSet(inbox[w].events) :
            e.type = "log" => CopiesIn(e, inbox[w].events) <= 1

\* the connections a broadcast in flight has already been through
Processed(b) == {b.connections[i] : i \in 1 .. b.k}

(* C19 - within one publish, a send that fails does not stop or drop the     *)
(* delivery to the others: every connection of the snapshot the loop has     *)
(* been through either failed itself or holds the event, and the loop is     *)
(* over only when it has been through all of them.                           *)
C19_FailureIsolated ==
    \A c \in DOMAIN bcast :
        LET b == bcast[c]
        IN  /\ b.k <= Len(b.connections)
            /\ \A w \in Processed(b) :
                   InList(b.disconnected, w) \/ CopiesIn(b.message, inbox[w].events) >= 1
            /\ \A i \in DOMAIN b.disconnected :
                   \E j \in 1 .. b.k : b.connections[j] = b.disconnected[i]

\* a publish has been through its whole snapshot: the send to w1 failed and
\* w2, registered behind it, holds the event
C19_Witness ==
    \E c \in DOMAIN bcast :
        LET b == bcast[c]
        IN  /\ b.connections = <<"w1", "w2">>
            /\ b.k = 2
            /\ b.disconnected = <<"w1">>
            /\ CopiesIn(b.message, inbox["w2"].events) >= 1
            /\ CopiesIn(b.message, inbox["w1"].events) = 0

\* websocket w is in the list the registry holds for run r
Registered(w, r) ==
    r \in DOMAIN active_connections /\ InList(active_connections[r], w)

\* the handler of w is between connect and the disconnect of its finally clause
Serving(w) == endpoint[w].pc \in {"get_run", "init_status", "get_logs", "replay", "listen"}

\* every list of the registry is non-empty, holds no websocket twice and only
\* websockets that were connected for its run
RegistrySound ==
    \A r \in DOMAIN active_connections :
        LET l == active_connections[r]
        IN  /\ l # <<>>
            /\ \A i, j \in DOMAIN l : l[i] = l[j] => i = j
            /\ \A i \in DOMAIN l : l[i] \in DOMAIN endpoint /\ endpoint[l[i]].run_id = r

\* a broadcast that starts copies the list the registry holds for its run
SnapshotTaken ==
    \A c \in (DOMAIN bcast') \ (DOMAIN bcast) :
        LET b == bcast'[c]
        IN  /\ b.run_id \in DOMAIN active_connections
            /\ b.connections = active_connections[b.run_id]

(* C20 - the registry tolerates any interleaving of connect, disconnect and   *)
(* publish: a publish works on the list registered when it starts, the lists  *)
(* stay sound, a websocket that is open and served stays registered whatever  *)
(* the others do, and a websocket whose disconnect completed is registered    *)
(* no more.                                                                   *)
C20_RegistryTolerant ==
    /\ [](/\ RegistrySound
          /\ \A w \in DOMAIN endpoint :
                /\ (endpoint[w].alive /\ Serving(w)) => Registered(w, endpoint[w].run_id)
                /\ endpoint[w].pc = "closed" => ~Registered(w, endpoint[w].run_id))
    /\ [][SnapshotTaken]_vars

\* w1 disconnected while a publish that had copied it was still sending, and
\* w2, open and served, is still registered and still to be sent to
C20_Witness ==
    /\ \E c \in DOMAIN bcast :
          /\ bcast[c].connections = <<"w1", "w2">>
          /\ bcast[c].k = 1
    /\ endpoint["w1"].pc = "closed"
    /\ endpoint["w2"].alive /\ Serving("w2")
    /\ active_connections = [r1 |-> <<"w2">>]

----------------------------------------------------------------------------
(* The scheduling the event loop guarantees: a task that can be resumed is  *)
(* resumed, and a send_text awaited by a broadcast returns.                 *)

\* a step of some task, or of some broadcast in flight
Progress ==
    \/ \E r \in DOMAIN task : TaskStep(r)
    \/ \E c \in DOMAIN bcast : BroadcastStep(c) \/ BroadcastReturn(c)

Fairness == WF_vars(Progress)

\* the requests under which termination is explored: every graph of
\* GraphDefs, two concurrent runs, a run followed by a websocket client, and
\* the graphs of BoundaryDefs (one run, no websocket client)
LiveScopes == {"routing", "concurrent", "streaming", "boundary"}

InitLive ==
    /\ scope \in LiveScopes
    /\ reply = Reply("none", TRUE, Null, NoGraph)
    /\ active_connections = [r \in {} |-> <<>>]
    /\ endpoint = [w \in {} |-> 0]
    /\ bcast = [c \in {} |-> 0]
    /\ inbox = [w \in {} |-> <<>>]
    /\ storageKind \in {"memory", "sqlite"}
    /\ graphs = [g \in {} |-> 0]
    /\ runs = [r \in {} |-> 0]
    /\ logs = [r \in {} |-> 0]
    /\ run_state = [r \in {} |-> 0]
    /\ task = [r \in {} |-> 0]
    /\ published = [r \in {} |-> 0]

\* Next without the second send of a broadcast, which takes two websockets
LiveNext ==
    \/ \E g \in GraphIds \ DOMAIN graphs :
          \E def \in SubmittedDefs(scope) : create_graph(g, def)
    \/ \E g \in GraphIds \ DOMAIN graphs :
          \E def \in InvalidDefs : create_graph(g, def)
    \/ \E r \in FirstFree(RunOrder, ScopeRuns(scope), DOMAIN run_state) :
          \E g \in GraphIds, s \in SubmittedStates(scope) : start_run(r, g, s)
    \/ \E w \in FirstFree(SocketOrder, ScopeSockets(scope), DOMAIN endpoint) :
          \E r \in ScopeTargets(scope) : WsConnect(w, r)
    \/ \E w \in DOMAIN endpoint : WsGetRun(w)
    \/ \E w \in DOMAIN endpoint : WsInitStatus(w)
    \/ \E w \in DOMAIN endpoint : WsGetLogs(w)
    \/ \E w \in DOMAIN endpoint : WsReplay(w)
    \/ \E w \in DOMAIN endpoint : WsReceive(w)
    \/ \E w \in DOMAIN endpoint : ClientClose(w)
    \/ \E c \in DOMAIN bcast : BroadcastReturn(c)
    \/ \E r \in DOMAIN task : Begin(r)
    \/ \E r \in DOMAIN task : RunNode(r)
    \/ \E r \in DOMAIN task : ToolReturn(r)
    \/ \E r \in DOMAIN task : SaveToolFailure(r)
    \/ \E r \in DOMAIN task : PublishToolFailure(r)
    \/ \E r \in DOMAIN task : AddLog(r)
    \/ \E r \in DOMAIN task : PublishLog(r)
    \/ \E r \in DOMAIN task : Route(r)
    \/ \E r \in DOMAIN task : SaveLimit(r)
    \/ \E r \in DOMAIN task : PublishLimit(r)
    \/ \E r \in DOMAIN task : SaveTransition(r)
    \/ \E r \in DOMAIN task : SaveCompleted(r)
    \/ \E r \in DOMAIN task : PublishCompleted(r)
    \/ \E r \in DOMAIN task : SaveException(r)
    \/ \E r \in DOMAIN task : PublishException(r)

LiveSpec == InitLive /\ [][LiveNext]_vars /\ Fairness

----------------------------------------------------------------------------
(* A service started on a SQLite database written by an earlier process:    *)
(* the graphs table holds a definition that the validate_graph of this      *)
(* process would refuse (a tool registered then and not now, a node id that *)
(* is not declared).  start_run reads it with get_graph, which validates    *)
(* nothing.                                                                 *)

StaleDefs ==
    InvalidDefs \cup
    {[nodes |-> <<Node("A", "boom")>>, edges |-> <<Edge("Z", "A", NoCond)>>,
      start_node |-> "A", max_loops |-> 1],
     [nodes |-> <<Node("A", "inc")>>,
      edges |-> <<Edge("A", "A", NoCond), Edge("A", "Z", NoCond)>>,
      start_node |-> "A", max_loops |-> 1],
     [nodes |-> <<Node("A", "inc"), Node("B", "nonexistent")>>,
      edges |-> <<Edge("A", "B", NoCond)>>,
      start_node |-> "A", max_loops |-> 1]}

InitStale ==
    /\ scope = "restart"
    /\ reply = Reply("none", TRUE, Null, NoGraph)
    /\ active_connections = [r \in {} |-> <<>>]
    /\ endpoint = [w \in {} |-> 0]
    /\ bcast = [c \in {} |-> 0]
    /\ inbox = [w \in {} |-> <<>>]
    /\ storageKind = "sqlite"
    /\ graphs \in {[g \in GraphIds |-> def] : def \in StaleDefs}
    /\ runs = [r \in {} |-> 0]
    /\ logs = [r \in {} |-> 0]
    /\ run_state = [r \in {} |-> 0]
    /\ task = [r \in {} |-> 0]
    /\ published = [r \in {} |-> 0]

NextStale ==
    \/ \E r \in FirstFree(RunOrder, RunIds, DOMAIN run_state) :
          \E g \in GraphIds, s \in InitialStates : start_run(r, g, s)
    \/ \E r \in DOMAIN task : Begin(r)
    \/ \E r \in DOMAIN task : RunNode(r)
    \/ \E r \in DOMAIN task : ToolReturn(r)
    \/ \E r \in DOMAIN task : SaveToolFailure(r)
    \/ \E r \in DOMAIN task : PublishToolFailure(r)
    \/ \E r \in DOMAIN task : AddLog(r)
    \/ \E r \in DOMAIN task : PublishLog(r)
    \/ \E r \in DOMAIN task : Route(r)
    \/ \E r \in DOMAIN task : SaveLimit(r)
    \/ \E r \in DOMAIN task : PublishLimit(r)
    \/ \E r \in DOMAIN task : SaveTransition(r)
    \/ \E r \in DOMAIN task : SaveCompleted(r)
    \/ \E r \in DOMAIN task : PublishCompleted(r)
    \/ \E r \in DOMAIN task : SaveException(r)
    \/ \E r \in DOMAIN task : PublishException(r)

SpecStale == InitStale /\ [][NextStale]_vars

----------------------------------------------------------------------------
(* Two runs of the graph of IsolationDefs, and one websocket client for each *)
(* that stays connected                                                     *)

InitIsolation ==
    /\ scope = "isolation"
    /\ reply = Reply("none", TRUE, Null, NoGraph)
    /\ active_connections = [r \in {} |-> <<>>]
    /\ endpoint = [w \in {} |-> 0]
    /\ bcast = [c \in {} |-> 0]
    /\ inbox = [w \in {} |-> <<>>]
    /\ storageKind \in {"memory", "sqlite"}
    /\ graphs = [g \in {} |-> 0]
    /\ runs = [r \in {} |-> 0]
    /\ logs = [r \in {} |-> 0]
    /\ run_state = [r \in {} |-> 0]
    /\ task = [r \in {} |-> 0]
    /\ published = [r \in {} |-> 0]

NextIsolation ==
    \/ \E g \in GraphIds \ DOMAIN graphs :
          \E def \in IsolationDefs : create_graph(g, def)
    \/ \E r \in FirstFree(RunOrder, RunIds, DOMAIN run_state) :
          \E g \in GraphIds, s \in InitialStates : start_run(r, g, s)
    \/ \E w \in Sockets \ DOMAIN endpoint : WsConnect(w, IsolationTarget[w])
    \/ \E w \in DOMAIN endpoint : WsGetRun(w)
    \/ \E w \in DOMAIN endpoint : WsInitStatus(w)
    \/ \E w \in DOMAIN endpoint : WsGetLogs(w)
    \/ \E w \in DOMAIN endpoint : WsReplay(w)
    \/ \E c \in DOMAIN bcast : BroadcastReturn(c)
    \/ \E r \in DOMAIN task : Begin(r)
    \/ \E r \in DOMAIN task : RunNode(r)
    \/ \E r \in DOMAIN task : ToolReturn(r)
    \/ \E r \in DOMAIN task : AddLog(r)
    \/ \E r \in DOMAIN task : PublishLog(r)
    \/ \E r \in DOMAIN task : Route(r)
    \/ \E r \in DOMAIN task : SaveCompleted(r)
    \/ \E r \in DOMAIN task : PublishCompleted(r)
    \/ \E r \in DOMAIN task : SaveException(r)
    \/ \E r \in DOMAIN task : PublishException(r)

SpecIsolation == InitIsolation /\ [][NextIsolation]_vars

----------------------------------------------------------------------------
(* Claims about scheduling, start_run, the run record and the event order *)

(* C21 - no head-of-line blocking: while the task of one run is suspended   *)
(* in the invocation of a tool, the task of any other run that has not      *)
(* ended and is not inside a broadcast can take its next step.              *)
C21_NoHeadOfLine ==
    \A r, q \in DOMAIN task :
        (/\ r # q
         /\ task[r].pc = "in_tool"
         /\ task[q].pc \notin {"done", "crashed"}
         /\ q \notin DOMAIN bcast) => ENABLED TaskStep(q)

\* r1 is still in its first tool invocation and r2, started after it, has
\* run two nodes and is completed, live and stored
C21_Witness ==
    /\ DOMAIN task = {"r1", "r2"}
    /\ task["r1"].pc = "in_tool"
    /\ task["r1"].visited = <<>>
    /\ task["r2"].pc = "done"
    /\ Len(task["r2"].visited) >= 2
    /\ run_state["r2"].status = "completed"
    /\ runs["r2"].status = "completed"

\* a start_run call that raised has just returned to its caller
StartRefused == reply' # reply /\ reply'.op = "start_run" /\ ~reply'.ok

(* C22 - start_run on a stored graph persists a run under an id not used    *)
(* before, running, at the start node of the graph, with the initial state  *)
(* of the call, and returns that id while the task of the run has invoked   *)
(* no tool; a start_run that raises (unknown graph id) persists no run and  *)
(* creates no task; no run is ever stored for a graph id that is unknown.   *)
C22_StartRun ==
    [][/\ \A r \in (DOMAIN runs') \ (DOMAIN runs) :
             /\ r \notin DOMAIN task /\ r \notin DOMAIN run_state
             /\ runs'[r].graph_id \in DOMAIN graphs
             /\ runs'[r].status = "running"
             /\ runs'[r].current_node = graphs[runs'[r].graph_id].start_node
             /\ runs'[r].state = task'[r].initial_state
             /\ runs'[r].message = NoMessage
             /\ reply' = Reply("start_run", TRUE, r, graphs[runs'[r].graph_id])
             /\ task'[r].pc = "sleep" /\ task'[r].visited = <<>>
       /\ DOMAIN task' = DOMAIN runs'
       /\ StartRefused => (runs' = runs /\ run_state' = run_state /\ task' = task)
       /\ (StartRefused /\ graphs = << >>) => reply'.def = NoGraph]_vars

\* the second start_run has just returned r2: its run is stored, running at
\* the start node, and its task has not run yet, while r1 is under way
C22_Witness ==
    /\ reply.op = "start_run" /\ reply.ok /\ reply.id = "r2"
    /\ task["r2"].pc = "sleep" /\ task["r2"].visited = <<>>
    /\ runs["r2"].status = "running"
    /\ runs["r2"].current_node = "A"
    /\ runs["r2"].state = task["r2"].initial_state
    /\ Len(task["r1"].visited) >= 1

\* message is set exactly on a failed run
MessageIffFailed(rs) == (rs.message # NoMessage) <=> (rs.status = "failed")

(* C23 - in every run state, the one the task holds and the one read back   *)
(* from storage, message is set if and only if the status is failed.        *)
C23_MessageIffFailed ==
    \A r \in DOMAIN runs :
        MessageIffFailed(run_state[r]) /\ MessageIffFailed(runs[r])

\* current_node is None only on a terminal run, and a running run is at a
\* node its graph declares
NodeWhileRunning(rs) ==
    /\ rs.current_node = Null => rs.status \in {"completed", "failed"}
    /\ rs.status = "running" =>
          rs.current_node \in DeclaredIds(graphs[rs.graph_id])

(* C24 - in every run state, the one the task holds and the one stored,     *)
(* current_node is None only when the status is completed or failed, and a  *)
(* running run has a current_node that its graph declares.                  *)
C24_NodeWhileRunning ==
    \A r \in DOMAIN runs :
        NodeWhileRunning(run_state[r]) /\ NodeWhileRunning(runs[r])

\* under SQLite the task holds a completed run with no current node while
\* the stored run is still running at the node of the last visit
C24_Witness ==
    \E r \in DOMAIN runs :
        /\ storageKind = "sqlite"
        /\ task[r].pc = "done_save"
        /\ run_state[r].current_node = Null /\ run_state[r].status = "completed"
        /\ runs[r].status = "running" /\ runs[r].current_node = "B"
        /\ Len(task[r].visited) >= 2

\* the task of run r is at a save_run it awaits
Saving(r) ==
    task[r].pc \in {"tool_fail_save", "limit_save", "trans_save", "done_save", "exc_save"}

(* C25 - one owner per run: a step that changes the run a task holds, or    *)
(* the run stored under its id, is a step of the task of that run (or the   *)
(* start_run that creates it) and touches the run of no other id; the       *)
(* stored run changes under SQLiteStorage only when that task was at a      *)
(* save_run, so the saves of one run happen one after the other, while the  *)
(* tasks of two runs can be at a save_run at the same time.                 *)
C25_OneOwner ==
    [][\A r \in DOMAIN runs' :
          IF r \notin DOMAIN runs
          THEN r \notin DOMAIN task /\ reply'.op = "start_run" /\ reply'.id = r
          ELSE (runs'[r] # runs[r] \/ run_state'[r] # run_state[r]) =>
                  /\ task'[r] # task[r]
                  /\ \A q \in (DOMAIN runs) \ {r} :
                        /\ runs'[q] = runs[q] /\ run_state'[q] = run_state[q]
                        /\ task'[q] = task[q]
                  /\ (storageKind = "sqlite" /\ runs'[r] # runs[r]) => Saving(r)]_vars

\* the tasks of two runs are both at a save_run
C25_Witness ==
    /\ DOMAIN task = {"r1", "r2"}
    /\ storageKind = "sqlite"
    /\ task["r1"].pc = "trans_save" /\ task["r2"].pc = "done_save"
    /\ runs["r1"] # run_state["r1"] /\ runs["r2"] # run_state["r2"]

\* the lookup of the node, or of its tool, failed when the run was about to
\* execute a node (lines 81-88)
LookupFailed(r) ==
    /\ task[r].err # NoMessage
    /\ task[r].err[1] \in {"Node definition missing during execution", "Tool missing"}

RECURSIVE Count(_, _)
Count(v, n) == IF v = <<>> THEN 0 ELSE (IF Head(v) = n THEN 1 ELSE 0) + Count(Tail(v), n)

\* the task of run r has ended: it returned, or an exception left it
Ended(r) == task[r].pc \in {"done", "crashed"}

(* C27 - every run terminates: the task of a started run ends, and unless a *)
(* storage call raised out of it the run is then completed or failed, for   *)
(* the task and in storage; no node is visited more than max_loops + 1      *)
(* times.                                                                   *)
C27_Terminates ==
    /\ [](\A r \in DOMAIN task :
            /\ \A i \in DOMAIN GraphOf(r).nodes :
                  Count(task[r].visited, GraphOf(r).nodes[i].id) <= GraphOf(r).max_loops + 1
            /\ task[r].pc = "done" =>
                  /\ Terminal(run_state[r].status)
                  /\ runs[r].status = run_state[r].status)
    /\ \A r \in RunIds : (r \in DOMAIN task) ~> (r \in DOMAIN task /\ Ended(r))

\* the dict bound to `state` once edge i has been evaluated
StateAfter(es, s, i) ==
    IF IsCond(es[i]) THEN simple_eval(es[i].condition, StateAt(es, s, i)).state
    ELSE StateAt(es, s, i)

(* C28 - declaration order: when an unconditional edge of the node just run *)
(* is declared before a conditional one, the routing step never reaches the *)
(* conditional edge: the node selected is the target of the first matching  *)
(* edge, which is the unconditional edge or one before it, and the state    *)
(* dict is as the evaluations up to that edge left it.                      *)
C28_UnconditionalBeforeConditional ==
    \A r \in DOMAIN task :
        LET es == RoutedEdges(r)
            s == RoutedFrom(r)
        IN  JustRouted(r) =>
                \A u \in Unconds(es) : \A j \in DOMAIN es :
                    (j > u /\ IsCond(es[j])) =>
                        LET m == Min(Matching(es, s))
                        IN  /\ m <= u
                            /\ j \notin Reached(es, s)
                            /\ task[r].next_node_id = es[m].to_node
                            /\ run_state[r].state = StateAfter(es, s, m)

\* A -> B unconditional was taken although the edge after it, A -> A when
\* state.pop('counter', 0) < 2, would be true and would remove the counter
C28_Witness ==
    \E r \in DOMAIN task :
        LET es == RoutedEdges(r) IN
        /\ task[r].pc = "trans_save"
        /\ Len(es) >= 2
        /\ es[1] = Edge("A", "B", NoCond)
        /\ es[2] = Edge("A", "A", CondPop(2))
        /\ simple_eval(es[2].condition, run_state[r].state).value
        /\ "counter" \in DOMAIN run_state[r].state
        /\ task[r].next_node_id = "B"
        /\ run_state[r].current_node = "B"

IsLogEvent(e) == e.type = "log"
IsTerminalEvent(e) == e.type = "status" /\ Terminal(e.status)

\* the positions of the terminal status events among the events ev
TerminalEvents(ev) == {i \in DOMAIN ev : IsTerminalEvent(ev[i])}

(* C29 - the events published for a run: the first is the running status    *)
(* event; the log events are, in order, those of the first entries of the   *)
(* stored log; there is at most one terminal status event, it is the last   *)
(* event, it carries the status of the stored run, which is the snapshot of *)
(* the run as it ended; and a run whose task has ended with the run         *)
(* completed or failed has exactly one.                                     *)
C29_EventOrder ==
    \A r \in DOMAIN published :
        LET ev == published[r]
            T == TerminalEvents(ev)
            L == SelectSeq(ev, IsLogEvent)
        IN  /\ ev # <<>> =>
                  ev[1] = StatusEvent("running", <<"Workflow execution started">>)
            /\ Len(L) <= Len(get_logs(r))
            /\ \A i \in DOMAIN L : L[i] = LogEvent(get_logs(r)[i])
            /\ Cardinality(T) <= 1
            /\ \A i \in T :
                  /\ i = Len(ev)
                  /\ task[r].pc = "done"
                  /\ ev[i].status = runs[r].status
                  /\ runs[r] = Persisted(run_state[r])
            /\ (Ended(r) /\ Terminal(run_state[r].status)) => Cardinality(T) = 1

(* C30 - the snapshots of the log chain: the input_state of the first entry *)
(* of a run is the initial state of the run, the input_state of every later *)
(* entry is the output_state of the entry before it, and the state of a     *)
(* stored run that is completed is the output_state of its last entry.      *)
C30_SnapshotsChain ==
    \A r \in DOMAIN task :
        LET lg == get_logs(r)
        IN  /\ lg # <<>> => lg[1].input_state = task[r].initial_state
            /\ \A i \in 2 .. Len(lg) : lg[i].input_state = lg[i - 1].output_state
            /\ (runs[r].status = "completed" /\ lg # <<>>) =>
                  runs[r].state = lg[Len(lg)].output_state

----------------------------------------------------------------------------
(* Claims about what subscribers are sent, the values of current_node, and  *)
(* the isolation of runs                                                    *)

(* C31 - no status regression: a websocket that has been delivered a status *)
(* event with status completed or failed is not delivered a status event    *)
(* with status running afterwards.                                          *)
C31_NoStatusRegression ==
    \A w \in DOMAIN inbox : "running" \notin inbox[w].late

(* C32 - in a run of a graph create_graph accepted, current_node is always  *)
(* a declared node id or null, live and stored; the lookups at the top of   *)
(* the loop never fail; and a failed run failed through a tool error, the   *)
(* loop limit or a storage error.                                           *)
C32_CurrentNodeDeclared ==
    \A r \in DOMAIN task :
        LET ids == DeclaredIds(GraphOf(r))
            rs == run_state[r]
        IN  /\ rs.current_node \in ids \cup {Null}
            /\ runs[r].current_node \in ids \cup {Null}
            /\ task[r].err \in {NoMessage, StorageError}
            /\ rs.status = "failed" =>
                  \/ /\ task[r].raised_at \in ids
                     /\ rs.message = ToolMessage(task[r].raised_at, "boom")
                  \/ \E n \in ids : rs.message = LimitMessage(n)
                  \/ rs.message = StorageError

\* the lookups succeeded for a node reached by a transition: B's tool is
\* running after A was visited and the run was saved at B
C32_Witness ==
    \E r \in DOMAIN task :
        /\ task[r].pc = "in_tool"
        /\ task[r].visited = <<"A">>
        /\ run_state[r].current_node = "B"
        /\ runs[r].current_node = "B"

(* C33 - events are isolated per run: every message a websocket has been    *)
(* delivered carries the run id the websocket connected for, and every      *)
(* connection in the registry list of a run, or in the copy a broadcast for *)
(* that run is sending to, connected for that run.                          *)
C33_EventsIsolated ==
    /\ \A w \in DOMAIN inbox : inbox[w].run_ids \subseteq {endpoint[w].run_id}
    /\ \A r \in DOMAIN active_connections :
          \A i \in DOMAIN active_connections[r] :
              endpoint[active_connections[r][i]].run_id = r
    /\ \A c \in DOMAIN bcast :
          \A i \in DOMAIN bcast[c].connections :
              endpoint[bcast[c].connections[i]].run_id = bcast[c].run_id

\* both runs have ended and each client holds the terminal status event and
\* the log event of its own run
C33_Witness ==
    /\ \A r \in RunIds : r \in DOMAIN task /\ task[r].pc = "done"
    /\ \A w \in Sockets :
          /\ w \in DOMAIN inbox
          /\ inbox[w].run_ids = {IsolationTarget[w]}
          /\ GotStatus(w, "completed")
          /\ \E e \in BagToSet(inbox[w].events) : e.type = "log"

(* C34 - runs are isolated: a step of the task of run r leaves the run      *)
(* object, the stored run, the log and the task of every other run as they  *)
(* were, and leaves every stored graph definition as it was.                *)
C34_RunsIsolated ==
    [][\A r \in DOMAIN task :
          task'[r] # task[r] =>
              /\ graphs' = graphs
              /\ \A q \in (DOMAIN task) \ {r} :
                    /\ run_state'[q] = run_state[q]
                    /\ runs'[q] = runs[q]
                    /\ task'[q] = task[q]
                    /\ (IF q \in DOMAIN logs' THEN logs'[q] ELSE <<>>) = get_logs(q)]_vars

\* two runs of one graph side by side: r1 has ended with a log of its own
\* while r2, started from another state, is between two of its visits
C34_Witness ==
    /\ DOMAIN task = {"r1", "r2"}
    /\ task["r1"].pc = "done"
    /\ task["r2"].pc \in {"route", "trans_save"}
    /\ get_logs("r1") # <<>> /\ get_logs("r2") # <<>>
    /\ run_state["r1"].state # run_state["r2"].state
    /\ run_state["r1"].graph_id = run_state["r2"].graph_id

\* websocket w is in the list of run r in registry reg
ListedIn(reg, r, w) == r \in DOMAIN reg /\ InList(reg[r], w)

(* C35 - the registry between critical sections: no run id maps to an empty *)
(* list; and when a broadcast returns, no connection whose send failed      *)
(* during it is in the list of its run.                                     *)
C35_RegistryInvariant ==
    /\ [](\A r \in DOMAIN active_connections : active_connections[r] # <<>>)
    /\ [][\A c \in DOMAIN bcast :
             c \notin DOMAIN bcast' =>
                 \A i \in DOMAIN bcast[c].disconnected :
                     ~ListedIn(active_connections', bcast[c].run_id,
                               bcast[c].disconnected[i])]_vars

\* a send to w1 failed and the broadcast has returned: w1, whose endpoint is
\* still waiting in receive_text, is out of the registry, and the list of the
\* run, left empty, is gone with it
C35_Witness ==
    /\ bcast = << >>
    /\ "w1" \in DOMAIN endpoint
    /\ endpoint["w1"].pc = "listen" /\ ~endpoint["w1"].alive
    /\ endpoint["w1"].run_id \in DOMAIN task
    /\ active_connections = << >>

====
